---------------------------- MODULE Spec2Model ----------------------------
(***************************************************************************)
(* Navmesh viewer: the OBJ parser, the bounds calculator, the scene        *)
(* loader with its GPU handles, the free-fly camera and the frame loop     *)
(* with hot-reload.                                                        *)
(*                                                                         *)
(* Conventions of the model                                                *)
(*   - a text field is a sequence of one-character strings;                *)
(*   - a float coordinate is an integer number of tenths;                  *)
(*   - angles (yaw, pitch) are integers in tenths of a degree;             *)
(*   - camera positions are integers in hundredths of a unit;              *)
(*   - a uint32 is the pair <<hi, lo>> of its 16-bit halves;               *)
(*   - durations are integers in milliseconds.                             *)
(***************************************************************************)
EXTENDS Integers, Sequences, FiniteSets, TLC

VARIABLES
    \* ---- main and its frame loop ----
    pc,                \* position of main
    exitCode,          \* -1 while running, else the process status
    filenames,         \* the list last handed to loadAllMeshes
    newFiles,          \* what checkFileReload returned in the current frame
    \* ---- the window ----
    shouldClose,       \* the close flag
    keys,              \* key states, as GetKey reports them
    cursor,            \* cursor position last reported
    \* ---- package-level variables ----
    scene,
    cameraPos, cameraFront, yaw, pitch,
    lastX, lastY, firstMouse,
    deltaTime,
    sinceFrame,        \* glfw.GetTime() - lastFrame
    currentSpeedIndex, lastShiftState,
    lastDirectory,
    \* ---- the render backend ----
    gl,                \* live object names: [arrays, buffers]
    \* ---- observations ----
    slept,             \* how long the last time.Sleep blocked
    sampled,           \* the key states GetKey gave in the previous frame
    \* ---- the parser run on its own ----
    objFile,           \* the lines handed to loadOBJFile, with their meaning
    objOut,            \* what loadOBJFile returned for them
    \* ---- the bounds calculator run on its own ----
    vertexBuf,         \* the vertex buffer handed to calculateBounds
    boxOut,            \* what calculateBounds returned for it
    boxList,           \* the boxes handed to the fold of combineBounds
    combined           \* what the fold returned for them

vars == <<pc, exitCode, filenames, newFiles, shouldClose, keys, cursor, scene,
          cameraPos, cameraFront, yaw, pitch, lastX, lastY, firstMouse,
          deltaTime, sinceFrame, currentSpeedIndex, lastShiftState,
          lastDirectory, gl, slept, sampled, objFile, objOut,
          vertexBuf, boxOut, boxList, combined>>

-----------------------------------------------------------------------------
(* Bounds of the model *)

\* longest file, in lines, handed to the parser on its own
MaxLines == 3
\* longest list of paths handed to the loader on its own
MaxFiles == 3
\* longest list of paths the file dialog of the viewer returns
MaxSelect == 2
\* farthest the camera travels from where a load placed it, in hundredths
MaxTravel == 3000
\* most vertices in a buffer handed to the bounds calculator on its own
MaxVerts == 2
\* longest list of boxes handed to the fold of combineBounds on its own
MaxBoxes == 3

-----------------------------------------------------------------------------
(* Numbers *)

Min(a, b) == IF a <= b THEN a ELSE b
Max(a, b) == IF a >= b THEN a ELSE b

\* uint32(n) for an int n, as <<hi, lo>>; negative n wraps modulo 2^32
ToUint32(n) ==
    IF n >= 0
    THEN <<(n \div 65536) % 65536, n % 65536>>
    ELSE <<65535 - ((((-n) - 1) \div 65536) % 65536),
           65535 - (((-n) - 1) % 65536)>>

-----------------------------------------------------------------------------
(* strconv *)

Digits == {"0", "1", "2", "3", "4", "5", "6", "7", "8", "9"}

DigitValue(c) ==
    CASE c = "0" -> 0 [] c = "1" -> 1 [] c = "2" -> 2 [] c = "3" -> 3
      [] c = "4" -> 4 [] c = "5" -> 5 [] c = "6" -> 6 [] c = "7" -> 7
      [] c = "8" -> 8 [] c = "9" -> 9

AllDigits(s) == \A i \in 1..Len(s) : s[i] \in Digits

RECURSIVE DecimalValue(_)
DecimalValue(s) ==
    IF s = <<>> THEN 0
    ELSE 10 * DecimalValue(SubSeq(s, 1, Len(s) - 1)) + DigitValue(s[Len(s)])

\* s without one leading sign
Unsigned(s) == IF s # <<>> /\ s[1] \in {"+", "-"} THEN Tail(s) ELSE s
Sign(s) == IF s # <<>> /\ s[1] = "-" THEN -1 ELSE 1

\* s without its leading zeros
RECURSIVE Significant(_)
Significant(s) == IF s # <<>> /\ s[1] = "0" THEN Significant(Tail(s)) ELSE s

\* whether the digits u spell a number beyond every int64: math.MaxInt64 has
\* 19 digits (numbers of 10 to 19 digits are outside the model)
OutOfRange(u) == Len(Significant(u)) > 19

\* strconv.Atoi: [val, ok, clamp]. A text that is no integer gives val 0
\* and an error; an integer out of range gives an error too, with the
\* nearest int as the value: clamp 1 stands for math.MaxInt, clamp -1 for
\* math.MinInt, which val cannot hold
Atoi(s) ==
    LET u == Unsigned(s) IN
    IF u # <<>> /\ AllDigits(u)
    THEN IF OutOfRange(u)
         THEN [val |-> 0, ok |-> FALSE, clamp |-> Sign(s)]
         ELSE [val |-> Sign(s) * DecimalValue(u), ok |-> TRUE, clamp |-> 0]
    ELSE [val |-> 0, ok |-> FALSE, clamp |-> 0]

\* position of the first "." of s, 0 when there is none
RECURSIVE DotAt(_, _)
DotAt(s, i) ==
    IF i > Len(s) THEN 0 ELSE IF s[i] = "." THEN i ELSE DotAt(s, i + 1)

\* strconv.ParseFloat for decimal literals [sign] digits [. digits] with at
\* most one fractional digit: [val, ok], val in tenths, 0 when the text is
\* no number
ParseFloat(s) ==
    LET u == Unsigned(s)
        d == DotAt(u, 1)
        ip == IF d = 0 THEN u ELSE SubSeq(u, 1, d - 1)
        fp == IF d = 0 THEN <<>> ELSE SubSeq(u, d + 1, Len(u))
    IN  IF /\ Len(ip) + Len(fp) > 0
           /\ AllDigits(ip) /\ AllDigits(fp) /\ Len(fp) <= 1
        THEN [val |-> Sign(s) * (10 * DecimalValue(ip) + DecimalValue(fp)),
              ok |-> TRUE]
        ELSE [val |-> 0, ok |-> FALSE]

\* strings.Split(field, "/")[0]: the text before the first "/"
RECURSIVE BeforeSlash(_)
BeforeSlash(s) ==
    IF s = <<>> \/ s[1] = "/" THEN <<>> ELSE <<s[1]>> \o BeforeSlash(Tail(s))

-----------------------------------------------------------------------------
(* strings.Fields *)

Space == {" ", "\t"}

\* the fields of a line: its maximal runs of non-space characters, in order
RECURSIVE FieldsFrom(_, _, _)
FieldsFrom(line, i, cur) ==
    IF i > Len(line)
    THEN IF cur = <<>> THEN <<>> ELSE <<cur>>
    ELSE IF line[i] \in Space
         THEN (IF cur = <<>> THEN <<>> ELSE <<cur>>) \o FieldsFrom(line, i + 1, <<>>)
         ELSE FieldsFrom(line, i + 1, Append(cur, line[i]))

Fields(line) == FieldsFrom(line, 1, <<>>)

-----------------------------------------------------------------------------
(* loadOBJFile *)

\* the "v" case: one vertex from fields 2..4, a field that does not parse
\* counting as 0
VertexOf(fields) ==
    <<ParseFloat(fields[2]).val, ParseFloat(fields[3]).val, ParseFloat(fields[4]).val>>

\* uint32(idx-1) for the idx that Atoi returned as a, on a build with a
\* 64-bit int: math.MaxInt-1 keeps the low 32 bits ff ff ff fe, and
\* math.MinInt-1 wraps to math.MaxInt, whose low 32 bits are all ones
IndexOf(a) ==
    IF a.clamp > 0 THEN <<65535, 65534>>
    ELSE IF a.clamp < 0 THEN <<65535, 65535>>
    ELSE ToUint32(a.val - 1)

\* the "f" case, one field: the leading reference, less one, as a uint32
\* (faulty variant: the reference is stored one-based)
MutFaceIndexNoDecrement(field) == ToUint32(Atoi(BeforeSlash(field)).val)
\* (faulty variant: a reference that does not parse is stored as 0)
MutFaceIndexZeroOnError(field) ==
    IF Atoi(BeforeSlash(field)).ok
    THEN IndexOf(Atoi(BeforeSlash(field)))
    ELSE <<0, 0>>
FaceIndex(field) == IndexOf(Atoi(BeforeSlash(field)))

\* the "f" case: one index per field after the token, in the order listed
FaceIndices(fields) == [i \in 1..(Len(fields) - 1) |-> FaceIndex(fields[i + 1])]

\* the scanner loop: tempVertices and indices after lines i..Len(lines)
RECURSIVE ScanLines(_, _, _, _)
ScanLines(lines, i, tempVertices, indices) ==
    IF i > Len(lines) THEN [tempVertices |-> tempVertices, indices |-> indices]
    ELSE LET fields == Fields(lines[i]) IN
         IF Len(fields) = 0 THEN ScanLines(lines, i + 1, tempVertices, indices)
         ELSE IF fields[1] = <<"v">>
         THEN IF Len(fields) < 4
              THEN ScanLines(lines, i + 1, tempVertices, indices)
              ELSE ScanLines(lines, i + 1, Append(tempVertices, VertexOf(fields)), indices)
         ELSE IF fields[1] = <<"f">>
         THEN IF Len(fields) < 4
              THEN ScanLines(lines, i + 1, tempVertices, indices)
              ELSE ScanLines(lines, i + 1, tempVertices, indices \o FaceIndices(fields))
         ELSE ScanLines(lines, i + 1, tempVertices, indices)

\* the final loop: the temporary vertices flattened, three floats each
RECURSIVE Flatten(_)
Flatten(tv) == IF tv = <<>> THEN <<>> ELSE tv[1] \o Flatten(Tail(tv))

\* what loadOBJFile returns once the scanner loop gave r
Buffers(r) == [vertices |-> Flatten(r.tempVertices), indices |-> r.indices]

\* loadOBJFile on the lines of a file that could be opened
LoadOBJLines(lines) == Buffers(ScanLines(lines, 1, <<>>, <<>>))

-----------------------------------------------------------------------------
(* Bounds *)

ZeroBounds == [minX |-> 0, minY |-> 0, minZ |-> 0, maxX |-> 0, maxY |-> 0, maxZ |-> 0]

\* the fold of calculateBounds over the vertices starting at offset i (0-based)
\* (faulty variant: maxZ is folded with y)
RECURSIVE MutBoundsFoldMaxZFromY(_, _, _)
MutBoundsFoldMaxZFromY(vertices, i, b) ==
    IF i >= Len(vertices) THEN b
    ELSE MutBoundsFoldMaxZFromY(vertices, i + 3,
             [minX |-> Min(b.minX, vertices[i + 1]),
              maxX |-> Max(b.maxX, vertices[i + 1]),
              minY |-> Min(b.minY, vertices[i + 2]),
              maxY |-> Max(b.maxY, vertices[i + 2]),
              minZ |-> Min(b.minZ, vertices[i + 3]),
              maxZ |-> Max(b.maxZ, vertices[i + 2])])
RECURSIVE BoundsFold(_, _, _)
BoundsFold(vertices, i, b) ==
    IF i >= Len(vertices) THEN b
    ELSE LET x == vertices[i + 1]
             y == vertices[i + 2]
             z == vertices[i + 3]
         IN  BoundsFold(vertices, i + 3,
                 [minX |-> Min(b.minX, x), maxX |-> Max(b.maxX, x),
                  minY |-> Min(b.minY, y), maxY |-> Max(b.maxY, y),
                  minZ |-> Min(b.minZ, z), maxZ |-> Max(b.maxZ, z)])

\* calculateBounds; the caller passes at least one vertex
\* (faulty variant: the box of the first vertex, the loop left out)
MutCalculateBoundsNoFold(vertices) ==
    [minX |-> vertices[1], maxX |-> vertices[1],
     minY |-> vertices[2], maxY |-> vertices[2],
     minZ |-> vertices[3], maxZ |-> vertices[3]]
calculateBounds(vertices) ==
    BoundsFold(vertices, 0,
        [minX |-> vertices[1], maxX |-> vertices[1],
         minY |-> vertices[2], maxY |-> vertices[2],
         minZ |-> vertices[3], maxZ |-> vertices[3]])

\* (faulty variant: minZ is taken from the first box alone)
MutCombineBoundsMinZOfFirst(a, b) ==
    [minX |-> Min(a.minX, b.minX), minY |-> Min(a.minY, b.minY),
     minZ |-> a.minZ, maxX |-> Max(a.maxX, b.maxX),
     maxY |-> Max(a.maxY, b.maxY), maxZ |-> Max(a.maxZ, b.maxZ)]
combineBounds(a, b) ==
    [minX |-> Min(a.minX, b.minX), minY |-> Min(a.minY, b.minY),
     minZ |-> Min(a.minZ, b.minZ), maxX |-> Max(a.maxX, b.maxX),
     maxY |-> Max(a.maxY, b.maxY), maxZ |-> Max(a.maxZ, b.maxZ)]

-----------------------------------------------------------------------------
(* The render backend: object names *)

\* glGenVertexArrays / glGenBuffers: an unused name, never 0; the lowest one
GenName(live) == CHOOSE n \in 1..(Cardinality(live) + 1) :
                    n \notin live /\ \A m \in 1..(n - 1) : m \in live

\* glDelete*: the name is released; 0 and unused names are ignored
DeleteName(live, n) == live \ {n}

-----------------------------------------------------------------------------
(* The files on disk *)

Dir == "/meshes"

\* a triangle, with a comment, a normal and a blank line around it
FileA == <<
    <<"#", " ", "a">>,
    <<"v", " ", "0", " ", "0", " ", "0">>,
    <<"v", " ", "2", " ", "4", " ", "-", "2">>,
    <<"v", " ", "1", " ", "0", " ", "0">>,
    <<" ">>,
    <<"v", "n", " ", "0", " ", "1", " ", "0">>,
    <<"f", " ", "1", " ", "2", " ", "3">> >>

\* two triangles away from the origin, with slashed references
FileB == <<
    <<"v", " ", "1", "0", " ", "1", " ", "-", "5">>,
    <<"v", " ", "1", "2", " ", "1", " ", "-", "5">>,
    <<"v", " ", "1", "0", " ", "3", ".", "5", " ", "-", "6">>,
    <<"v", " ", "1", "2", " ", "3", " ", "-", "6">>,
    <<"f", " ", "1", "/", "1", " ", "2", "/", "2", " ", "3", "/", "3">>,
    <<"f", " ", "2", " ", "4", " ", "3">> >>

\* positions and no face
FileE == << <<"v", " ", "7", " ", "7", " ", "7">> >>

\* what os.Open and the scanner give for a path: the lines, or no file
Disk(path) ==
    CASE path = "a.obj" -> [readable |-> TRUE, lines |-> FileA]
      [] path = "b.obj" -> [readable |-> TRUE, lines |-> FileB]
      [] path = "e.obj" -> [readable |-> TRUE, lines |-> FileE]
      [] path = "z.obj" -> [readable |-> TRUE, lines |-> <<>>]
      [] OTHER -> [readable |-> FALSE, lines |-> <<>>]

ReadablePaths == {"a.obj", "b.obj", "e.obj", "z.obj"}
Paths == ReadablePaths \cup {"gone.obj"}

\* loadOBJFile: log.Fatal when the file cannot be opened
\* (faulty variant: a file that cannot be opened reads as an empty file)
MutLoadOBJFileSoft(filename) ==
    [fatal |-> FALSE] @@ LoadOBJLines(Disk(filename).lines)
loadOBJFile(filename) ==
    IF Disk(filename).readable
    THEN [fatal |-> FALSE] @@ LoadOBJLines(Disk(filename).lines)
    ELSE [fatal |-> TRUE, vertices |-> <<>>, indices |-> <<>>]

-----------------------------------------------------------------------------
(* Scene loading *)

\* MeshData{}
EmptyMesh == [vertices |-> <<>>, indices |-> <<>>, bounds |-> ZeroBounds,
              vao |-> 0, vbo |-> 0, ebo |-> 0]

\* whether loadSingleMesh keeps the file as an empty placeholder
\* (faulty variant: only a file with neither is a placeholder)
MutNoMeshDataBoth(vertices, indices) == Len(vertices) = 0 /\ Len(indices) = 0
NoMeshData(vertices, indices) == Len(vertices) = 0 \/ Len(indices) = 0

\* loadSingleMesh once loadOBJFile returned f, in the backend state
\* g = [arrays, buffers]: [fatal, mesh, g]
MeshOf(g, f) ==
    IF f.fatal THEN [fatal |-> TRUE, mesh |-> EmptyMesh, g |-> g]
    ELSE IF NoMeshData(f.vertices, f.indices)
    THEN [fatal |-> FALSE, mesh |-> EmptyMesh, g |-> g]
    ELSE LET vao == GenName(g.arrays)
             vbo == GenName(g.buffers)
             ebo == GenName(g.buffers \cup {vbo})
         IN  [fatal |-> FALSE,
              mesh |-> [vertices |-> f.vertices, indices |-> f.indices,
                        bounds |-> calculateBounds(f.vertices),
                        vao |-> vao, vbo |-> vbo, ebo |-> ebo],
              g |-> [arrays |-> g.arrays \cup {vao},
                     buffers |-> g.buffers \cup {vbo, ebo}]]

loadSingleMesh(g, filename) == MeshOf(g, loadOBJFile(filename))

\* the loop of loadAllMeshes over paths[i..]: [fatal, scene, g]; Loaded is
\* its body once loadSingleMesh returned r
RECURSIVE LoadRest(_, _, _, _)
RECURSIVE Loaded(_, _, _, _)
Loaded(paths, i, newScene, r) ==
    IF r.fatal THEN [fatal |-> TRUE, scene |-> newScene, g |-> r.g]
    ELSE LoadRest(r.g, paths, i + 1,
             [meshes |-> Append(newScene.meshes, r.mesh),
              bounds |-> combineBounds(newScene.bounds, r.mesh.bounds)])

LoadRest(g, paths, i, newScene) ==
    IF i > Len(paths) THEN [fatal |-> FALSE, scene |-> newScene, g |-> g]
    ELSE Loaded(paths, i, newScene, loadSingleMesh(g, paths[i]))

\* loadAllMeshes once loadSingleMesh returned first for paths[1]
LoadedFirst(paths, first) ==
    IF first.fatal
    THEN [fatal |-> TRUE, scene |-> [meshes |-> <<>>, bounds |-> ZeroBounds],
          g |-> first.g]
    ELSE LoadRest(first.g, paths, 2,
             [meshes |-> <<first.mesh>>, bounds |-> first.mesh.bounds])

\* loadAllMeshes without its camera step: [fatal, scene, g]; paths is not
\* empty
loadAllMeshes(g, paths) == LoadedFirst(paths, loadSingleMesh(g, paths[1]))

\* cleanupScene: every mesh's three names deleted: the backend state after
\* (faulty variant: the element buffers are not deleted)
RECURSIVE MutDeleteMeshesKeepBuffers(_, _)
MutDeleteMeshesKeepBuffers(g, meshes) ==
    IF meshes = <<>> THEN g
    ELSE MutDeleteMeshesKeepBuffers(
             [arrays |-> DeleteName(g.arrays, meshes[1].vao),
              buffers |-> DeleteName(g.buffers, meshes[1].vbo)],
             Tail(meshes))
RECURSIVE DeleteMeshes(_, _)
DeleteMeshes(g, meshes) ==
    IF meshes = <<>> THEN g
    ELSE DeleteMeshes(
             [arrays |-> DeleteName(g.arrays, meshes[1].vao),
              buffers |-> DeleteName(DeleteName(g.buffers, meshes[1].vbo),
                                     meshes[1].ebo)],
             Tail(meshes))

-----------------------------------------------------------------------------
(* Camera *)

\* the unit front vector of a yaw and a pitch, kept as the angles it is
\* computed from
Direction(y, p) == [yaw |-> y, pitch |-> p]

MaxSize(b) == Max(b.maxX - b.minX, Max(b.maxY - b.minY, b.maxZ - b.minZ))

\* initializeCamera: [cameraPos, yaw, pitch, cameraFront]; positions in
\* hundredths: center = (min+max)/2, offsets 0.3 and 0.8 of the extent
initializeCamera(b) ==
    [cameraPos |-> [base |-> <<(b.minX + b.maxX) * 5,
                              (b.minY + b.maxY) * 5 + MaxSize(b) * 3,
                              (b.minZ + b.maxZ) * 5 + MaxSize(b) * 8>>,
                    fwd |-> 0, right |-> 0],
     yaw |-> -900, pitch |-> -200,
     cameraFront |-> Direction(-900, -200)]

-----------------------------------------------------------------------------
(* Program constants *)

width == 1280
height == 720
baseSpeed == 100
speedMultipliers == <<1, 5, 10, 20, 40>>
\* 89.0 degrees, in tenths
PitchLimit == 890
\* time.Second, in milliseconds, and the frame rate of the cap
Second == 1000
FrameRate == 60

-----------------------------------------------------------------------------
(* Input handling *)

KeyNames == {"LeftShift", "F1", "W", "S", "A", "D"}

\* the speed index after processInput sampled the modifier key
\* (faulty variant: the index advances in every frame the key is down)
MutNextSpeedIndexHeld(index, current, last) ==
    IF current THEN (index + 1) % Len(speedMultipliers) ELSE index
NextSpeedIndex(index, current, last) ==
    IF current /\ ~last THEN (index + 1) % Len(speedMultipliers) ELSE index

\* baseSpeed * multiplier * deltaTime, in hundredths of a unit
Speed(index, dt) == (baseSpeed * speedMultipliers[index + 1] * dt) \div 10

Abs(n) == IF n < 0 THEN -n ELSE n

processInput ==
    LET current == keys["LeftShift"]
        index == NextSpeedIndex(currentSpeedIndex, current, lastShiftState)
        speed == Speed(index, deltaTime)
        fwd == cameraPos.fwd + (IF keys["W"] THEN speed ELSE 0)
                             - (IF keys["S"] THEN speed ELSE 0)
        right == cameraPos.right - (IF keys["A"] THEN speed ELSE 0)
                                 + (IF keys["D"] THEN speed ELSE 0)
    IN  /\ Abs(fwd) <= MaxTravel /\ Abs(right) <= MaxTravel
        /\ currentSpeedIndex' = index
        /\ lastShiftState' = current
        /\ cameraPos' = [cameraPos EXCEPT !.fwd = fwd, !.right = right]

\* the pitch clamp of mouseCallback
\* (faulty variant: no upper limit)
MutClampPitchLowOnly(p) == IF p < -PitchLimit THEN -PitchLimit ELSE p
ClampPitch(p) ==
    IF p > PitchLimit THEN PitchLimit
    ELSE IF p < -PitchLimit THEN -PitchLimit ELSE p

\* whether mouseCallback takes the sample as the first one
\* (faulty variant: the first sample is taken as any other)
MutNeverFirst == FALSE
IsFirstMouse == firstMouse

\* mouseCallback(xpos, ypos); the sensitivity 0.1 makes one pixel one tenth
\* of a degree
mouseCallback(xpos, ypos) ==
    IF IsFirstMouse
    THEN /\ lastX' = xpos
         /\ lastY' = ypos
         /\ firstMouse' = FALSE
         /\ UNCHANGED <<yaw, pitch, cameraFront>>
    ELSE LET xoffset == xpos - lastX
             yoffset == lastY - ypos
         IN  /\ lastX' = xpos
             /\ lastY' = ypos
             /\ yaw' = yaw + xoffset
             /\ pitch' = ClampPitch(pitch + yoffset)
             /\ cameraFront' = Direction(yaw', pitch')
             /\ UNCHANGED firstMouse

\* keyCallback: the close flag after a key event
keyCallback(key, press) == shouldClose \/ (key = "Escape" /\ press)

-----------------------------------------------------------------------------
(* File selection *)

\* what selectOBJFiles returns: the paths and the error
Cancelled == [files |-> <<>>, err |-> "no files selected"]
Failed == [files |-> <<>>, err |-> "dialog failed"]
Selected(paths) == [files |-> paths, err |-> "nil"]

\* checkFileReload without F1 pressed: nil, nil
NoReload == [asked |-> FALSE, files |-> <<>>, err |-> "nil"]

\* lastDirectory after selectOBJFiles returned sel; every path is in Dir
DirectoryAfter(sel) ==
    IF sel.err = "nil" /\ Len(sel.files) > 0 THEN Dir ELSE lastDirectory

\* the condition of main under which a reload replaces the scene
\* (faulty variant: any list the dialog returns without error is loaded)
MutReloadAcceptedAnyList(r) == r.asked /\ r.err = "nil"
ReloadAccepted(r) == r.err = "nil" /\ Len(r.files) > 0

\* whether checkFileReload opens the dialog
OpensDialog == keys["F1"]

-----------------------------------------------------------------------------
(* Frame pacing *)

\* the argument of time.Sleep: time.Duration(deltaTime) keeps the whole
\* seconds of deltaTime
SleepArg(dt) == Second \div FrameRate - (dt \div Second) * Second

\* how long time.Sleep blocks: not at all for an argument <= 0
SleepTime(dt) == Max(0, SleepArg(dt))

\* the loop condition of main
\* (faulty variant: the close flag is not tested)
MutLoopCondAlways == TRUE
LoopCond == ~shouldClose

-----------------------------------------------------------------------------
(* The state before main runs *)

NotParsed == [done |-> FALSE, vertices |-> <<>>, indices |-> <<>>]
NotComputed == [done |-> FALSE, bounds |-> ZeroBounds]

InitProgram ==
    /\ pc = "start"
    /\ exitCode = -1
    /\ filenames = <<>>
    /\ newFiles = NoReload
    /\ shouldClose = FALSE
    /\ keys = [k \in KeyNames |-> FALSE]
    /\ cursor = <<width \div 2, height \div 2>>
    /\ scene = [meshes |-> <<>>, bounds |-> ZeroBounds]
    /\ cameraPos = [base |-> <<0, 0, 0>>, fwd |-> 0, right |-> 0]
    /\ cameraFront = Direction(-900, 0)
    /\ yaw = -900
    /\ pitch = 0
    /\ lastX = width \div 2
    /\ lastY = height \div 2
    /\ firstMouse = TRUE
    /\ deltaTime = 0
    /\ sinceFrame = 0
    /\ currentSpeedIndex = 0
    /\ lastShiftState = FALSE
    /\ lastDirectory = ""
    /\ gl = [arrays |-> {}, buffers |-> {}]
    /\ slept = 0
    /\ sampled = [k \in KeyNames |-> FALSE]
    /\ objOut = NotParsed
    /\ boxOut = NotComputed
    /\ combined = NotComputed

Init == InitProgram /\ objFile = <<>> /\ vertexBuf = <<>> /\ boxList = <<>>

camVars == <<cameraPos, cameraFront, yaw, pitch>>
mouseVars == <<lastX, lastY, firstMouse>>
speedVars == <<currentSpeedIndex, lastShiftState>>
parseVars == <<objFile, objOut>>
calcVars == <<vertexBuf, boxOut, boxList, combined>>
mainVars == <<pc, exitCode, filenames, newFiles, shouldClose, keys, cursor,
              scene, camVars, mouseVars, deltaTime, sinceFrame, speedVars,
              lastDirectory, gl, slept, sampled>>

-----------------------------------------------------------------------------
(* main *)

\* the process ends with a status
Exit(status) == pc' = "done" /\ exitCode' = status

\* scene = loadAllMeshes(...) once the loader returned r: log.Fatal of
\* loadOBJFile ends the process, else the camera frames the new scene and
\* main goes on at next
Install(r, next) ==
    /\ gl' = r.g
    /\ IF r.fatal
       THEN Exit(1) /\ UNCHANGED <<scene, camVars>>
       ELSE /\ pc' = next
            /\ UNCHANGED exitCode
            /\ scene' = r.scene
            /\ cameraPos' = initializeCamera(r.scene.bounds).cameraPos
            /\ yaw' = initializeCamera(r.scene.bounds).yaw
            /\ pitch' = initializeCamera(r.scene.bounds).pitch
            /\ cameraFront' = initializeCamera(r.scene.bounds).cameraFront

\* main up to the frame loop: the first selection sel, answered after d ms
\* since glfw.Init, and the first load
Startup(sel, d) ==
    /\ pc = "start"
    /\ lastDirectory' = DirectoryAfter(sel)
    /\ sinceFrame' = d
    /\ IF sel.err # "nil"
       THEN \* log.Fatal("Initial file selection failed:", err)
            /\ Exit(1)
            /\ UNCHANGED <<filenames, scene, gl, camVars>>
       ELSE IF Len(sel.files) = 0
       THEN \* filenames[0] of loadAllMeshes: index out of range
            /\ Exit(2)
            /\ filenames' = sel.files
            /\ UNCHANGED <<scene, gl, camVars>>
       ELSE /\ filenames' = sel.files
            /\ Install(loadAllMeshes(gl, sel.files), "cond")
    /\ UNCHANGED <<newFiles, shouldClose, keys, cursor, mouseVars, deltaTime,
                   speedVars, slept, sampled, parseVars, calcVars>>

\* for !window.ShouldClose(): the loop ends and main returns
LoopExit ==
    /\ pc = "cond"
    /\ ~LoopCond
    /\ Exit(0)
    /\ UNCHANGED <<filenames, newFiles, shouldClose, keys, cursor, scene,
                   camVars, mouseVars, deltaTime, sinceFrame, speedVars,
                   lastDirectory, gl, slept, sampled, parseVars, calcVars>>

\* the head of an iteration: deltaTime and lastFrame
FrameStart ==
    /\ pc = "cond"
    /\ LoopCond
    /\ pc' = "input"
    /\ deltaTime' = sinceFrame
    /\ sinceFrame' = 0
    /\ UNCHANGED <<exitCode, filenames, newFiles, shouldClose, keys, cursor,
                   scene, camVars, mouseVars, speedVars, lastDirectory, gl,
                   slept, sampled, parseVars, calcVars>>

ProcessInput ==
    /\ pc = "input"
    /\ processInput
    /\ pc' = "reload"
    /\ sampled' = [sampled EXCEPT !["LeftShift"] = keys["LeftShift"]]
    /\ UNCHANGED <<exitCode, filenames, newFiles, shouldClose, keys, cursor,
                   scene, cameraFront, yaw, pitch, mouseVars, deltaTime,
                   sinceFrame, lastDirectory, gl, slept, parseVars, calcVars>>

\* checkFileReload with F1 released, and the if of main that follows
CheckNoReload ==
    /\ pc = "reload"
    /\ ~OpensDialog
    /\ newFiles' = NoReload
    /\ pc' = IF ReloadAccepted(newFiles') THEN "cleanup" ELSE "render"
    /\ sampled' = [sampled EXCEPT !["F1"] = keys["F1"]]
    /\ UNCHANGED <<exitCode, filenames, shouldClose, keys, cursor, scene,
                   camVars, mouseVars, deltaTime, sinceFrame, speedVars,
                   lastDirectory, gl, slept, parseVars, calcVars>>

\* checkFileReload with F1 pressed: the dialog answers sel
CheckReload(sel) ==
    /\ pc = "reload"
    /\ OpensDialog
    /\ newFiles' = [asked |-> TRUE, files |-> sel.files, err |-> sel.err]
    /\ lastDirectory' = DirectoryAfter(sel)
    /\ pc' = IF ReloadAccepted(newFiles') THEN "cleanup" ELSE "render"
    /\ sampled' = [sampled EXCEPT !["F1"] = keys["F1"]]
    /\ UNCHANGED <<exitCode, filenames, shouldClose, keys, cursor, scene,
                   camVars, mouseVars, deltaTime, sinceFrame, speedVars, gl,
                   slept, parseVars, calcVars>>

CleanupScene ==
    /\ pc = "cleanup"
    /\ gl' = DeleteMeshes(gl, scene.meshes)
    /\ scene' = [scene EXCEPT !.meshes = <<>>]
    /\ pc' = "load"
    /\ UNCHANGED <<exitCode, filenames, newFiles, shouldClose, keys, cursor,
                   camVars, mouseVars, deltaTime, sinceFrame, speedVars,
                   lastDirectory, slept, sampled, parseVars, calcVars>>

\* scene = loadAllMeshes(program, newFiles), the camera step included
LoadScene ==
    /\ pc = "load"
    /\ filenames' = newFiles.files
    /\ Install(loadAllMeshes(gl, newFiles.files), "render")
    /\ UNCHANGED <<newFiles, shouldClose, keys, cursor, mouseVars, deltaTime,
                   sinceFrame, speedVars, lastDirectory, slept, sampled,
                   parseVars, calcVars>>

\* renderScene and SwapBuffers, d ms after the frame began; newFiles leaves
\* scope
Render(d) ==
    /\ pc = "render"
    /\ pc' = "poll"
    /\ newFiles' = NoReload
    /\ sinceFrame' = d
    /\ UNCHANGED <<exitCode, filenames, shouldClose, keys, cursor, scene,
                   camVars, mouseVars, deltaTime, speedVars, lastDirectory,
                   gl, slept, sampled, parseVars, calcVars>>

\* glfw.PollEvents delivers a key event
KeyEvent(key, press) ==
    /\ pc = "poll"
    /\ key \in KeyNames => keys[key] # press
    /\ keys' = IF key \in KeyNames THEN [keys EXCEPT ![key] = press] ELSE keys
    /\ shouldClose' = keyCallback(key, press)
    /\ UNCHANGED <<pc, exitCode, filenames, newFiles, cursor, scene, camVars,
                   mouseVars, deltaTime, sinceFrame, speedVars, lastDirectory,
                   gl, slept, sampled, parseVars, calcVars>>

\* glfw.PollEvents takes a window-close request
CloseRequest ==
    /\ pc = "poll"
    /\ shouldClose' = TRUE
    /\ UNCHANGED <<pc, exitCode, filenames, newFiles, keys, cursor, scene,
                   camVars, mouseVars, deltaTime, sinceFrame, speedVars,
                   lastDirectory, gl, slept, sampled, parseVars, calcVars>>

\* glfw.PollEvents delivers a cursor position
CursorEvent(xpos, ypos) ==
    /\ pc = "poll"
    /\ cursor # <<xpos, ypos>>
    /\ cursor' = <<xpos, ypos>>
    /\ mouseCallback(xpos, ypos)
    /\ UNCHANGED <<pc, exitCode, filenames, newFiles, shouldClose, keys,
                   scene, cameraPos, deltaTime, sinceFrame, speedVars,
                   lastDirectory, gl, slept, sampled, parseVars, calcVars>>

\* glfw.PollEvents returns
PollReturn ==
    /\ pc = "poll"
    /\ pc' = "sleep"
    /\ UNCHANGED <<exitCode, filenames, newFiles, shouldClose, keys, cursor,
                   scene, camVars, mouseVars, deltaTime, sinceFrame,
                   speedVars, lastDirectory, gl, slept, sampled, parseVars, calcVars>>

\* time.Sleep(time.Second/60 - time.Duration(deltaTime)*time.Second)
Sleep ==
    /\ pc = "sleep"
    /\ slept' = SleepTime(deltaTime)
    /\ sinceFrame' = sinceFrame + slept'
    /\ pc' = "cond"
    /\ UNCHANGED <<exitCode, filenames, newFiles, shouldClose, keys, cursor,
                   scene, camVars, mouseVars, deltaTime, speedVars,
                   lastDirectory, gl, sampled, parseVars, calcVars>>

-----------------------------------------------------------------------------
(* The parser run on its own *)

\* lines a file is made of: the text, with what the line means (kind "v":
\* vals are the coordinates in tenths; kind "f": vals are the one-based
\* references; "blank" and "other" lines mean nothing; the rest are not
\* well-formed: "short" has too few fields, "quad" has four references,
\* "badv" and "badf" have a field that is no number and "rangef" a
\* reference beyond every int, their vals reading such a field as 0)
LinePool == {
    [kind |-> "v", vals |-> <<0, 0, 0>>,
     text |-> <<"v", " ", "0", " ", "0", " ", "0">>],
    [kind |-> "v", vals |-> <<20, 40, -20>>,
     text |-> <<"v", " ", "2", " ", "4", " ", "-", "2">>],
    [kind |-> "v", vals |-> <<15, -5, 100>>,
     text |-> <<"v", " ", " ", "1", ".", "5", "\t", "-", "0", ".", "5", " ",
                "1", "0", " ", "1", ".", "0">>],
    [kind |-> "f", vals |-> <<1, 2, 3>>,
     text |-> <<"f", " ", "1", " ", "2", " ", "3">>],
    [kind |-> "f", vals |-> <<2, 3, 1>>,
     text |-> <<"f", " ", "2", "/", "1", " ", "3", "/", "2", "/", "2", " ",
                "1", "/", "/", "3">>],
    [kind |-> "blank", vals |-> <<>>, text |-> <<>>],
    [kind |-> "blank", vals |-> <<>>, text |-> <<" ", "\t">>],
    [kind |-> "other", vals |-> <<>>,
     text |-> <<"#", " ", "v", " ", "1", " ", "2", " ", "3">>],
    [kind |-> "other", vals |-> <<>>,
     text |-> <<"v", "n", " ", "0", " ", "1", " ", "0">>],
    [kind |-> "short", vals |-> <<>>,
     text |-> <<"v", " ", "1", " ", "2">>],
    [kind |-> "quad", vals |-> <<1, 2, 3, 4>>,
     text |-> <<"f", " ", "1", " ", "2", " ", "3", " ", "4">>],
    [kind |-> "badv", vals |-> <<10, 0, 20>>,
     text |-> <<"v", " ", "1", " ", "x", " ", "2">>],
    [kind |-> "badf", vals |-> <<1, 2, 0>>,
     text |-> <<"f", " ", "1", " ", "2", " ", "x">>],
    [kind |-> "badf", vals |-> <<0, 2, 3>>,
     text |-> <<"f", " ", "/", "1", " ", "2", " ", "3">>],
    [kind |-> "rangef", vals |-> <<1, 2, 0>>,
     text |-> <<"f", " ", "1", " ", "2", " ",
                "9", "9", "9", "9", "9", "9", "9", "9", "9", "9",
                "9", "9", "9", "9", "9", "9", "9", "9", "9", "9">>]}

ObjFiles == UNION {[1..n -> LinePool] : n \in 0..MaxLines}

TextOf(file) == [i \in 1..Len(file) |-> file[i].text]

InitParse ==
    InitProgram /\ objFile \in ObjFiles /\ vertexBuf = <<>> /\ boxList = <<>>

\* loadOBJFile on the file
ParseFile ==
    /\ ~objOut.done
    /\ objOut' = [done |-> TRUE] @@ LoadOBJLines(TextOf(objFile))
    /\ UNCHANGED <<pc, exitCode, filenames, newFiles, shouldClose, keys,
                   cursor, scene, camVars, mouseVars, deltaTime, sinceFrame,
                   speedVars, lastDirectory, gl, slept, sampled, objFile,
                   calcVars>>

NextParse == ParseFile

SpecParse == InitParse /\ [][NextParse]_vars

-----------------------------------------------------------------------------
(* The loader run on its own: main up to its first load *)

PathLists == UNION {[1..n -> Paths] : n \in 1..MaxFiles}

NextLoad == \E paths \in PathLists : Startup(Selected(paths), 2500)

SpecLoad == Init /\ [][NextLoad]_vars

-----------------------------------------------------------------------------
(* The bounds calculator run on its own *)

\* coordinates of a vertex, in tenths
Xs == {-10, 0, 20}
Ys == {0, 15, 40}
Zs == {-20, 0, 5}
VertexPool == {<<x, y, z>> : x \in Xs, y \in Ys, z \in Zs}

\* the vertex buffers loadSingleMesh hands to calculateBounds: three floats
\* per vertex, at least one vertex
VertexBufs ==
    {Flatten(tv) : tv \in UNION {[1..n -> VertexPool] : n \in 1..MaxVerts}}

InitBounds ==
    InitProgram /\ objFile = <<>> /\ vertexBuf \in VertexBufs /\ boxList = <<>>

\* bounds := calculateBounds(vertices)
CalculateBounds ==
    /\ ~boxOut.done
    /\ boxOut' = [done |-> TRUE, bounds |-> calculateBounds(vertexBuf)]
    /\ UNCHANGED <<mainVars, parseVars, vertexBuf, boxList, combined>>

NextBounds == CalculateBounds

SpecBounds == InitBounds /\ [][NextBounds]_vars

-----------------------------------------------------------------------------
(* The fold of combineBounds run on its own *)

Box(x0, y0, z0, x1, y1, z1) ==
    [minX |-> x0, minY |-> y0, minZ |-> z0, maxX |-> x1, maxY |-> y1, maxZ |-> z1]

\* boxes of meshes: the box of MeshData{}, the boxes of the files on disk,
\* a single point, a box around the origin and a box apart from the others
BoxPool == {
    ZeroBounds,
    calculateBounds(LoadOBJLines(FileA).vertices),
    calculateBounds(LoadOBJLines(FileB).vertices),
    Box(-10, 0, 0, -10, 0, 0),
    Box(-30, -30, -30, 30, 30, 30),
    Box(5, 50, -5, 15, 60, 5)}

BoxLists == UNION {[1..n -> BoxPool] : n \in 1..MaxBoxes}

\* the bounds of loadAllMeshes over the boxes of its meshes: the first box
\* seeds newScene.bounds, each later one is combined into it, in list order
RECURSIVE FoldFrom(_, _, _)
FoldFrom(boxes, i, acc) ==
    IF i > Len(boxes) THEN acc
    ELSE FoldFrom(boxes, i + 1, combineBounds(acc, boxes[i]))

FoldBounds(boxes) == FoldFrom(boxes, 2, boxes[1])

InitCombine ==
    InitProgram /\ objFile = <<>> /\ vertexBuf = <<>> /\ boxList \in BoxLists

CombineAll ==
    /\ ~combined.done
    /\ combined' = [done |-> TRUE, bounds |-> FoldBounds(boxList)]
    /\ UNCHANGED <<mainVars, parseVars, vertexBuf, boxOut, boxList>>

NextCombine == CombineAll

SpecCombine == InitCombine /\ [][NextCombine]_vars

-----------------------------------------------------------------------------
(* The viewer: hot-reload and close, with F1, Escape and the close button *)

\* what the file dialog can answer
Selections == {Cancelled, Failed, Selected(<<>>)} \cup
              {Selected(paths) : paths \in UNION {[1..n -> Paths] : n \in 1..MaxSelect}}

Next ==
    \/ \E sel \in Selections : Startup(sel, 2500)
    \/ LoopExit
    \/ FrameStart
    \/ ProcessInput
    \/ CheckNoReload
    \/ \E sel \in Selections : CheckReload(sel)
    \/ CleanupScene
    \/ LoadScene
    \/ Render(5)
    \/ \E press \in BOOLEAN : KeyEvent("F1", press)
    \/ KeyEvent("Escape", TRUE)
    \/ CloseRequest
    \/ PollReturn
    \/ Sleep

Spec == Init /\ [][Next]_vars

-----------------------------------------------------------------------------
(* The viewer: speed cycling and movement, with Left Shift, W and S *)

NextInput ==
    \/ Startup(Selected(<<"a.obj">>), 2500)
    \/ FrameStart
    \/ ProcessInput
    \/ CheckNoReload
    \/ Render(5)
    \/ \E key \in {"LeftShift", "W", "S"}, press \in BOOLEAN : KeyEvent(key, press)
    \/ PollReturn
    \/ Sleep

SpecInput == Init /\ [][NextInput]_vars

-----------------------------------------------------------------------------
(* The viewer: frame pacing, with frame bodies of several lengths *)

StartupTimes == {0, 700, 2500}
BodyTimes == {5, 16, 20, 1500}

NextPace ==
    \/ \E d \in StartupTimes : Startup(Selected(<<"a.obj">>), d)
    \/ FrameStart
    \/ ProcessInput
    \/ CheckNoReload
    \/ \E d \in BodyTimes : Render(d)
    \/ \E press \in BOOLEAN : KeyEvent("LeftShift", press)
    \/ PollReturn
    \/ Sleep

SpecPace == Init /\ [][NextPace]_vars

-----------------------------------------------------------------------------
(* The viewer: mouse look, with reloads *)

CursorXs == {0, 100}
CursorYs == {0, 850, 1700}

NextMouse ==
    \/ Startup(Selected(<<"a.obj">>), 2500)
    \/ FrameStart
    \/ ProcessInput
    \/ CheckNoReload
    \/ \E sel \in {Cancelled, Selected(<<"b.obj">>)} : CheckReload(sel)
    \/ CleanupScene
    \/ LoadScene
    \/ Render(5)
    \/ \E press \in BOOLEAN : KeyEvent("F1", press)
    \/ \E x \in CursorXs, y \in CursorYs : CursorEvent(x, y)
    \/ PollReturn
    \/ Sleep

SpecMouse == Init /\ [][NextMouse]_vars

-----------------------------------------------------------------------------
(* The viewer as in Spec, its single thread always taking its next step: *)
(* PollEvents returns, the sleep ends, the loop test runs                 *)

SpecFair ==
    /\ Init /\ [][Next]_vars
    /\ WF_vars(PollReturn) /\ WF_vars(Sleep) /\ WF_vars(LoopExit)

-----------------------------------------------------------------------------
(* Properties *)

\* the names a mesh list holds; 0 is no name
ArraysOf(meshes) == {meshes[i].vao : i \in 1..Len(meshes)} \ {0}
BuffersOf(meshes) ==
    ({meshes[i].vbo : i \in 1..Len(meshes)} \cup
     {meshes[i].ebo : i \in 1..Len(meshes)}) \ {0}
HasData(m) == m # EmptyMesh
NoName == [arrays |-> {}, buffers |-> {}]

\* C1: the live GPU names are those of one scene only: the current scene
\* never holds a released name, every live name is held by the current
\* scene (or, when a load ended the process, by the scene that load was
\* building while the current one holds none), no name is held twice, and
\* between cleanupScene and loadAllMeshes of a hot-reload no name is live:
\* the old scene is released in full before a name of the new one exists
C1_OneSceneOwnsHandles ==
    /\ ArraysOf(scene.meshes) \subseteq gl.arrays
    /\ BuffersOf(scene.meshes) \subseteq gl.buffers
    /\ \/ /\ gl.arrays = ArraysOf(scene.meshes)
          /\ gl.buffers = BuffersOf(scene.meshes)
       \/ scene.meshes = <<>> /\ pc = "done" /\ exitCode = 1
    /\ Cardinality(gl.arrays) = Len(SelectSeq(scene.meshes, HasData))
       \/ scene.meshes = <<>>
    /\ Cardinality(gl.buffers) = 2 * Cardinality(gl.arrays)
    /\ pc = "load" => gl = NoName /\ scene.meshes = <<>>

\* C1 witness: a hot-reload has put a two-mesh scene in place of the scene
\* that was loaded at startup
C1_Witness ==
    /\ pc = "render" /\ newFiles.asked /\ newFiles.err = "nil"
    /\ filenames = newFiles.files
    /\ Len(scene.meshes) = 2 /\ gl.arrays # {}

\* C2: the file dialog opens only in a frame that samples F1 pressed after
\* the previous frame sampled it released
C2_DialogOnlyOnPressEdge ==
    [][(pc = "reload" /\ newFiles'.asked) => (keys["F1"] /\ ~sampled["F1"])]_vars

\* a reload request that does not replace the scene: cancelled, failed or
\* an empty list
Declined(r) == r.asked /\ (r.err # "nil" \/ Len(r.files) = 0)

\* C3: no step of a frame whose hot-reload selection was cancelled, failed
\* or came back empty changes the mesh list, the combined bounds, the GPU
\* names or the camera position, yaw and pitch
C3_DeclinedReloadKeepsScene ==
    [][Declined(newFiles') => UNCHANGED <<scene, gl, cameraPos, yaw, pitch>>]_vars

\* C3 witness: the dialog returned an empty list and the frame went on to
\* render the scene it had
C3_Witness ==
    /\ pc = "render" /\ newFiles.asked
    /\ newFiles.err = "nil" /\ newFiles.files = <<>>
    /\ scene.meshes # <<>>

\* C4: processInput advances the speed index by one modulo 5 exactly when
\* Left Shift is sampled pressed after being sampled released in the
\* previous frame, nothing else changes it, and it stays in 0..4
C4_SpeedIndexAdvancesOnPressEdge ==
    [][/\ pc = "input" =>
            currentSpeedIndex' =
                IF keys["LeftShift"] /\ ~sampled["LeftShift"]
                THEN (currentSpeedIndex + 1) % 5
                ELSE currentSpeedIndex
       /\ pc # "input" => currentSpeedIndex' = currentSpeedIndex
       /\ currentSpeedIndex' \in 0..4]_vars

\* C4 witness: four press-edges in, Left Shift is held into a further frame
C4_Witness ==
    /\ pc = "input" /\ currentSpeedIndex = 4
    /\ keys["LeftShift"] /\ sampled["LeftShift"]

\* C5: pitch stays within [-89, 89] degrees
C5_PitchClamped == pitch \in -890..890

\* C5 witness: cursor samples have driven pitch up to the limit
C5_Witness == ~firstMouse /\ pitch = 890

\* C6: the pacing sleep lasts max(0, 1/60 s - time spent in the iteration)
C6_SleepsRemainderOfBudget ==
    [][pc = "sleep" => slept' = Max(0, (1000 \div 60) - sinceFrame)]_vars

\* C7: the first cursor sample only seeds the previous position and leaves
\* yaw, pitch and the front vector alone; each later sample rotates the
\* camera by its delta from the sample before it
C7_FirstSampleSeeds ==
    [][cursor' # cursor =>
        /\ lastX' = cursor'[1] /\ lastY' = cursor'[2] /\ ~firstMouse'
        /\ IF firstMouse
           THEN UNCHANGED <<yaw, pitch, cameraFront>>
           ELSE /\ yaw' = yaw + (cursor'[1] - cursor[1])
                /\ pitch' = Max(-890, Min(890, pitch + (cursor[2] - cursor'[2])))
                /\ cameraFront' = Direction(yaw', pitch')]_vars

\* C7 witness: one sample has been delivered and the camera still looks
\* where the load pointed it
C7_Witness ==
    /\ pc = "poll" /\ ~firstMouse /\ cursor = <<lastX, lastY>>
    /\ cursor # <<width \div 2, height \div 2>>
    /\ yaw = -900 /\ pitch = -200 /\ cameraFront = Direction(-900, -200)

\* C8: once the close flag is set the loop only finishes its iteration
\* (poll, sleep, loop test) and starts no other, the process then ends, with
\* status 0, and an iteration starts only with the flag clear
C8_CloseEndsLoop ==
    /\ [][/\ shouldClose => shouldClose' /\ pc' \in {"poll", "sleep", "cond", "done"}
          /\ pc' = "input" => ~shouldClose
          /\ (pc' = "done" /\ shouldClose) => exitCode' = 0]_vars
    /\ shouldClose ~> (pc = "done" /\ exitCode = 0)

\* C8 witness: the loop has ended on a close signal
C8_Witness == pc = "done" /\ shouldClose /\ exitCode = 0

\* what a file of well-formed lines means: its coordinates and its
\* references, in file order
WellFormed(file) ==
    \A i \in 1..Len(file) : file[i].kind \in {"v", "f", "blank", "other"}
RECURSIVE CoordinatesOf(_)
CoordinatesOf(file) ==
    IF file = <<>> THEN <<>>
    ELSE (IF file[1].kind = "v" THEN file[1].vals ELSE <<>>) \o CoordinatesOf(Tail(file))
RECURSIVE ReferencesOf(_)
ReferencesOf(file) ==
    IF file = <<>> THEN <<>>
    ELSE (IF file[1].kind = "f" THEN file[1].vals ELSE <<>>) \o ReferencesOf(Tail(file))
CountKind(file, kind) == Cardinality({i \in 1..Len(file) : file[i].kind = kind})

\* C9: for a file of N well-formed "v" lines, M three-reference "f" lines,
\* blank lines and lines with other tokens, the parser returns the 3N
\* coordinates in file order and the 3M references in file order, each less
\* one
C9_ParserRoundTrip ==
    (objOut.done /\ WellFormed(objFile)) =>
        /\ Len(objOut.vertices) = 3 * CountKind(objFile, "v")
        /\ Len(objOut.indices) = 3 * CountKind(objFile, "f")
        /\ objOut.vertices = CoordinatesOf(objFile)
        /\ objOut.indices =
               [i \in 1..Len(ReferencesOf(objFile)) |->
                   <<0, ReferencesOf(objFile)[i] - 1>>]

\* C9 witness: a parsed file with a position, a face and a line that is
\* neither
C9_Witness ==
    /\ objOut.done /\ WellFormed(objFile)
    /\ CountKind(objFile, "v") = 1 /\ CountKind(objFile, "f") = 1
    /\ Len(objFile) = 3

\* the files that hold no position or no face
EmptyPaths == {"e.obj", "z.obj"}
HasMesh(path) == path \notin EmptyPaths
AllReadable(paths) == \A i \in 1..Len(paths) : paths[i] \in ReadablePaths

\* C10: a load of n readable paths goes through and gives n mesh records in
\* the order of the paths; a file without positions or without faces gives
\* MeshData{}, which holds no GPU name, and the records of the other files
\* are those of a load of the other files alone
C10_LoadKeepsOrderAndPlaceholders ==
    (pc # "start" /\ AllReadable(filenames)) =>
        /\ pc = "cond" /\ exitCode = -1
        /\ Len(scene.meshes) = Len(filenames)
        /\ \A i \in 1..Len(filenames) :
              IF HasMesh(filenames[i])
              THEN /\ scene.meshes[i].vertices =
                          LoadOBJLines(Disk(filenames[i]).lines).vertices
                   /\ scene.meshes[i].vertices # <<>>
                   /\ scene.meshes[i].vao # 0
              ELSE /\ scene.meshes[i] = EmptyMesh
                   /\ scene.meshes[i].vao = 0
                   /\ scene.meshes[i].vbo = 0
                   /\ scene.meshes[i].ebo = 0
        /\ SelectSeq(filenames, HasMesh) # <<>> =>
              SelectSeq(scene.meshes, HasData) =
                  loadAllMeshes(NoName, SelectSeq(filenames, HasMesh)).scene.meshes

\* C10 witness: three files loaded, the first of them without a face
C10_Witness ==
    /\ pc = "cond" /\ Len(filenames) = 3
    /\ filenames[1] = "e.obj" /\ filenames[2] = "b.obj" /\ filenames[3] = "a.obj"
    /\ Len(scene.meshes) = 3

\* the paths os.Open succeeds on, and those among them that give a mesh
Readable(path) == path \in ReadablePaths
GivesMesh(path) == Readable(path) /\ HasMesh(path)

\* the position of the first path of a list that cannot be opened
FirstUnreadable(paths) ==
    CHOOSE i \in 1..Len(paths) :
        ~Readable(paths[i]) /\ \A j \in 1..(i - 1) : Readable(paths[j])

\* C11 as stated: a load of several paths of which one cannot be opened
\* goes through, the record of that path is MeshData{}, and the records of
\* the paths that were read are those of a load without it; the process
\* ends on the load only when the path that cannot be opened is the only
\* one
C11_UnreadableFileIsPlaceholder ==
    (pc # "start" /\ ~AllReadable(filenames)) =>
        /\ (pc = "done" /\ exitCode = 1) => Len(filenames) = 1
        /\ Len(filenames) > 1 =>
              /\ pc = "cond" /\ exitCode = -1
              /\ Len(scene.meshes) = Len(filenames)
              /\ \A i \in 1..Len(filenames) :
                    ~Readable(filenames[i]) => scene.meshes[i] = EmptyMesh
              /\ SelectSeq(filenames, GivesMesh) # <<>> =>
                    SelectSeq(scene.meshes, HasData) =
                        loadAllMeshes(NoName, SelectSeq(filenames, GivesMesh)).scene.meshes

\* C11 as amended: a load of a list of which some path cannot be opened
\* ends the process with status 1, however many paths the list has and
\* wherever the path stands: no scene is installed and the camera is not
\* placed; the files before that path were loaded (their GPU names exist),
\* the files after it were not
C11_UnreadableFileIsFatal ==
    (pc # "start" /\ ~AllReadable(filenames)) =>
        /\ pc = "done" /\ exitCode = 1
        /\ scene = [meshes |-> <<>>, bounds |-> ZeroBounds]
        /\ cameraPos = [base |-> <<0, 0, 0>>, fwd |-> 0, right |-> 0]
        /\ yaw = -900 /\ pitch = 0
        /\ Cardinality(gl.arrays) =
               Len(SelectSeq(SubSeq(filenames, 1, FirstUnreadable(filenames) - 1),
                             GivesMesh))

\* C11 witness: the second of three files could not be opened, after the
\* first had been loaded
C11_Witness ==
    /\ pc = "done" /\ exitCode = 1
    /\ filenames = <<"a.obj", "gone.obj", "b.obj">>
    /\ Cardinality(gl.arrays) = 1

\* the coordinates a vertex buffer holds on axis k (1: x, 2: y, 3: z)
AxisOf(vertices, k) ==
    {vertices[3 * (i - 1) + k] : i \in 1..(Len(vertices) \div 3)}
IsLeast(m, S) == m \in S /\ \A c \in S : m <= c
IsGreatest(m, S) == m \in S /\ \A c \in S : m >= c

\* C12: for a vertex buffer of at least one vertex, calculateBounds returns
\* on each axis the least and the greatest coordinate of the buffer's
\* vertices on that axis, so min <= max on every axis
C12_BoundsAreAxisMinMax ==
    boxOut.done =>
        /\ IsLeast(boxOut.bounds.minX, AxisOf(vertexBuf, 1))
        /\ IsGreatest(boxOut.bounds.maxX, AxisOf(vertexBuf, 1))
        /\ IsLeast(boxOut.bounds.minY, AxisOf(vertexBuf, 2))
        /\ IsGreatest(boxOut.bounds.maxY, AxisOf(vertexBuf, 2))
        /\ IsLeast(boxOut.bounds.minZ, AxisOf(vertexBuf, 3))
        /\ IsGreatest(boxOut.bounds.maxZ, AxisOf(vertexBuf, 3))
        /\ boxOut.bounds.minX <= boxOut.bounds.maxX
        /\ boxOut.bounds.minY <= boxOut.bounds.maxY
        /\ boxOut.bounds.minZ <= boxOut.bounds.maxZ

\* C12 witness: a buffer of two vertices, the second lower in x and higher
\* in y than the first
C12_Witness ==
    /\ boxOut.done /\ Len(vertexBuf) = 6
    /\ vertexBuf[4] < vertexBuf[1] /\ vertexBuf[5] > vertexBuf[2]
    /\ boxOut.bounds.minX = vertexBuf[4] /\ boxOut.bounds.maxY = vertexBuf[5]

\* the buffer of the two vertices (0,0,0) and (2,4,-2), in tenths
TwoVertices == <<0, 0, 0, 20, 40, -20>>

\* C13 as stated: for the buffer of the vertices (0,0,0) and (2,4,-2),
\* calculateBounds returns min = (0,0,0) and max = (2,4,-2)
C13_BoundsOfTwoVerticesAsStated ==
    (boxOut.done /\ vertexBuf = TwoVertices) =>
        boxOut.bounds = [minX |-> 0, minY |-> 0, minZ |-> 0,
                         maxX |-> 20, maxY |-> 40, maxZ |-> -20]

\* C13 as amended: for the buffer of the vertices (0,0,0) and (2,4,-2),
\* calculateBounds returns min = (0,0,-2) and max = (2,4,0)
C13_BoundsOfTwoVertices ==
    (boxOut.done /\ vertexBuf = TwoVertices) =>
        boxOut.bounds = [minX |-> 0, minY |-> 0, minZ |-> -20,
                         maxX |-> 20, maxY |-> 40, maxZ |-> 0]

\* C13 witness: calculateBounds has returned for that buffer
C13_Witness == boxOut.done /\ vertexBuf = TwoVertices

\* the orders of a list of n elements
Orders(n) == {p \in [1..n -> 1..n] : \A i, j \in 1..n : p[i] = p[j] => i = j}
Reordered(list, p) == [i \in 1..Len(list) |-> list[p[i]]]

\* C14: combineBounds is commutative and associative: for the first boxes
\* A, B, C of a list, combine(A,B) = combine(B,A) and combine(combine(A,B),C)
\* = combine(A,combine(B,C)) = combine(combine(B,A),C); and the fold of
\* combineBounds over the list gives the same box for every order of the
\* list
C14_CombineIsOrderFree ==
    combined.done =>
        /\ \A p \in Orders(Len(boxList)) :
              FoldBounds(Reordered(boxList, p)) = combined.bounds
        /\ Len(boxList) >= 2 =>
              combineBounds(boxList[1], boxList[2]) =
                  combineBounds(boxList[2], boxList[1])
        /\ Len(boxList) >= 3 =>
              /\ combineBounds(combineBounds(boxList[1], boxList[2]), boxList[3]) =
                     combineBounds(boxList[1], combineBounds(boxList[2], boxList[3]))
              /\ combineBounds(combineBounds(boxList[1], boxList[2]), boxList[3]) =
                     combineBounds(combineBounds(boxList[2], boxList[1]), boxList[3])

\* C14 witness: three different boxes folded into a box that is none of
\* them
C14_Witness ==
    /\ combined.done /\ Len(boxList) = 3
    /\ Cardinality({boxList[1], boxList[2], boxList[3]}) = 3
    /\ combined.bounds \notin {boxList[1], boxList[2], boxList[3]}

\* C15: after a parse every value of the index buffer is the zero-based
\* position of a vertex of the vertex buffer of the same parse: it is at
\* least 0 and less than the number of vertices
C15_IndicesAddressVertices ==
    objOut.done =>
        \A i \in 1..Len(objOut.indices) :
            /\ objOut.indices[i][1] = 0
            /\ objOut.indices[i][2] >= 0
            /\ objOut.indices[i][2] < Len(objOut.vertices) \div 3

\* what a file means when a field that is no number reads as 0: the
\* coordinates of its "v" lines and the references of its "f" lines, those
\* with such a field included, in file order
RECURSIVE CoordinatesRead(_)
CoordinatesRead(file) ==
    IF file = <<>> THEN <<>>
    ELSE (IF file[1].kind \in {"v", "badv"} THEN file[1].vals ELSE <<>>)
             \o CoordinatesRead(Tail(file))
RECURSIVE ReferencesRead(_)
ReferencesRead(file) ==
    IF file = <<>> THEN <<>>
    ELSE (IF file[1].kind \in {"f", "quad", "badf", "rangef"}
          THEN file[1].vals ELSE <<>>) \o ReferencesRead(Tail(file))

\* a one-based reference less one as an unsigned 32-bit integer: 0 less one
\* is 4294967295
Decremented(ref) == IF ref = 0 THEN <<65535, 65535>> ELSE <<0, ref - 1>>

\* the parse gave what the file means with 0 for each field that failed
ReadWithZeros ==
    /\ objOut.vertices = CoordinatesRead(objFile)
    /\ objOut.indices =
           [i \in 1..Len(ReferencesRead(objFile)) |->
               Decremented(ReferencesRead(objFile)[i])]

RECURSIVE AllVertices(_)
AllVertices(meshes) ==
    IF meshes = <<>> THEN <<>> ELSE meshes[1].vertices \o AllVertices(Tail(meshes))
LeastOf(S) == CHOOSE m \in S : \A c \in S : m <= c
GreatestOf(S) == CHOOSE m \in S : \A c \in S : m >= c

\* the box of the least and greatest coordinates of a vertex buffer
BoxAround(vertices) ==
    Box(LeastOf(AxisOf(vertices, 1)), LeastOf(AxisOf(vertices, 2)),
        LeastOf(AxisOf(vertices, 3)), GreatestOf(AxisOf(vertices, 1)),
        GreatestOf(AxisOf(vertices, 2)), GreatestOf(AxisOf(vertices, 3)))

\* C17: after a load that gave at least one mesh with vertices, the box of
\* the scene is the elementwise min/max over the vertices of the meshes that
\* have vertices, it is the box of a load of the same files without those
\* that gave an empty placeholder, and the camera has been initialized from
\* it
C17_SceneBoxIgnoresPlaceholders ==
    (pc = "cond" /\ AllVertices(scene.meshes) # <<>>) =>
        /\ scene.bounds = BoxAround(AllVertices(scene.meshes))
        /\ scene.bounds =
               loadAllMeshes(NoName, SelectSeq(filenames, GivesMesh)).scene.bounds
        /\ cameraPos =
               initializeCamera(BoxAround(AllVertices(scene.meshes))).cameraPos
        /\ yaw = -900 /\ pitch = -200


=============================================================================
